---- MODULE Spec2Model ----
(***************************************************************************)
(* Model of cmd/vault.go of vault-ctrl-tool: the authentication chain      *)
(* (authenticateToVault, performTokenAuth, performKubernetesAuth), the     *)
(* token revocation (revokeSelf), the secret fetch (readKVSecrets) with    *)
(* its path computation, the token renewal (renewSelf run through          *)
(* backoff.Retry) and the lease registry the renewal and the fetch write.  *)
(* Each function is a small state machine whose                            *)
(* position is a pc variable; what the collaborators (Vault, Kubernetes,   *)
(* the file system) answer is chosen nondeterministically at the call.     *)
(***************************************************************************)
EXTENDS Integers, Sequences, FiniteSets, TLC

VARIABLES
    \* ---- inputs of authenticateToVault
    leaseToken,        \* leases.AuthTokenLease.Token
    vaultTokenArg,     \* *vaultTokenArg
    envVaultToken,     \* os.Getenv(api.EnvVaultToken)
    k8sAuthRole,       \* *k8sAuthRole
    \* ---- position and observations of authenticateToVault
    authPc,            \* the statement authenticateToVault is about to run
    methods,           \* the authentication methods invoked, in order
    tokenAuthArgs,     \* the vaultToken argument of every performTokenAuth call
    clientBuilt,       \* api.NewClient succeeded in the method invoked
    storeCalls,        \* the requests sent to Vault, in order
    cmLookup,          \* how the ConfigMap lookup ended
    configMaps,        \* configMaps.Items of the lookup
    authOutcome,       \* how authenticateToVault ended
    sessionToken,      \* the token of the client returned
    \* ---- position and observations of revokeSelf
    revokePc,          \* "idle", "returned" or "fatal"
    revokeCalls,       \* the RevokeSelf requests sent to Vault, in order
    revokeErrorLogged, \* jww.ERROR.Printf of line 36 has run
    \* ---- inputs of readKVSecrets
    secrets,             \* config.Secrets: <<[key, path, isMissingOk], ...>>
    serviceSecretPrefix, \* *serviceSecretPrefix
    \* ---- position and observations of readKVSecrets
    kvIdx,               \* index of the request the range loop is at
    kvStatus,            \* "idle", "running", "fatal" or "returned"
    vaultSecretsMapping, \* the map being filled
    kvLog,               \* client.Logical().Read calls: <<[req, path, resp], ...>>
    secretLeases,        \* the responses handed to enrollSecretInLease, in order
    kvResult,            \* what the caller got: <<m>> after return, <<>> otherwise
    \* ---- the path computation of readKVSecrets taken alone
    requestPath,         \* request.Path
    resolvedPath,        \* <<path>> once lines 247-253 have run, <<>> before
    \* ---- inputs of renewSelf
    duration,            \* the duration argument, in milliseconds
    \* ---- position and observations of renewSelf / backoff.Retry
    renewPc,             \* "idle", "attempt" (about to call op), "wait" or "done"
    ctxDone,             \* ctx has been cancelled
    cancelPoint,         \* <<renewPc, attempts made>> when ctx was cancelled, else <<>>
    now,                 \* milliseconds since the back-off was reset
    currentInterval,     \* ExponentialBackOff.currentInterval, in milliseconds
    nextWait,            \* the delay the timer of the current wait was set to
    attemptLog,          \* what every RenewSelf call returned, in order
    authTokenLease,      \* the secrets handed to enrollAuthTokenInLease, in order
    renewErr,            \* the error renewSelf returned
    stopReason,          \* why backoff.Retry returned
    \* ---- the lease registry shared by the renewal task, the secret fetch and
    \* ---- the readers that flush it
    regLock,             \* who holds the registry's guard, "free" if nobody
    registry,            \* category -> [lease, expiry], written field by field
    writerPc,            \* writer -> "off", "idle", "locked", "half" or "written"
    writerRound,         \* writer -> number of updates completed
    readerPc,            \* reader -> "off", "idle", "locked" or "copied"
    readerSnap           \* reader -> the registry as it last copied it

authVars == <<leaseToken, vaultTokenArg, envVaultToken, k8sAuthRole, authPc,
              methods, tokenAuthArgs, clientBuilt, storeCalls, cmLookup,
              configMaps, authOutcome, sessionToken>>

kvVars == <<secrets, serviceSecretPrefix, kvIdx, kvStatus, vaultSecretsMapping,
            kvLog, secretLeases, kvResult, requestPath, resolvedPath>>

renewVars == <<duration, renewPc, ctxDone, cancelPoint, now, currentInterval, nextWait, attemptLog,
               authTokenLease, renewErr, stopReason>>

revokeVars == <<revokePc, revokeCalls, revokeErrorLogged>>

registryVars == <<regLock, registry, writerPc, writerRound, readerPc, readerSnap>>

vars == <<authVars, kvVars, renewVars, revokeVars, registryVars>>

-----------------------------------------------------------------------------
(* Bounds and input sets *)

MaxConfigMaps == 2
MaxSecrets == 3
MaxPathTokens == 3
MaxUpdates == 2
MaxDurationSec == 2
MaxAttempts == 4

TokenVals == {"", "s.tok1", "s.tok2"}
RoleVals == {"", "app"}

\* ConfigMap.Data restricted to the key the code reads: the key "token" is
\* either absent or bound to a string (which may be empty).
ConfigMapData ==
    { [k \in S |-> v] : S \in SUBSET {"token"}, v \in TokenVals }

RECURSIVE SeqsUpTo(_, _)
SeqsUpTo(S, n) ==
    IF n = 0 THEN {<<>>}
    ELSE LET shorter == SeqsUpTo(S, n - 1)
         IN  shorter \cup { Append(s, x) : s \in { t \in shorter : Len(t) = n - 1 }, x \in S }

-----------------------------------------------------------------------------
(* performTokenAuth *)

\* A request sent to Vault and whether Vault answered it without error.
LookupSelf(tok, ok) == [op |-> "LookupSelf", arg |-> tok, ok |-> ok]
Login(role, ok)     == [op |-> "Login", arg |-> role, ok |-> ok]

\* PerformTokenAuth returning the client although LookupSelf failed.
PerformTokenAuthIgnoringLookupError(vaultToken, newClientErr, lookupErr) ==
    IF newClientErr
    THEN [err |-> TRUE, built |-> FALSE, calls |-> <<>>, token |-> ""]
    ELSE [err |-> FALSE, built |-> TRUE, calls |-> <<LookupSelf(vaultToken, ~lookupErr)>>,
          token |-> vaultToken]

\* The result of performTokenAuth(cfg, vaultToken) given what api.NewClient and
\* LookupSelf answer: the error flag, the requests sent and the client's token.
PerformTokenAuth(vaultToken, newClientErr, lookupErr) ==
    IF newClientErr
    THEN [err |-> TRUE, built |-> FALSE, calls |-> <<>>, token |-> ""]
    ELSE IF lookupErr
    THEN [err |-> TRUE, built |-> TRUE, calls |-> <<LookupSelf(vaultToken, FALSE)>>,
          token |-> ""]
    ELSE [err |-> FALSE, built |-> TRUE, calls |-> <<LookupSelf(vaultToken, TRUE)>>,
          token |-> vaultToken]

\* TokenBranch without the Fatalf: an error of performTokenAuth is logged and
\* the chain goes on to the Kubernetes login.
TokenBranchFallthrough(method, tok) ==
    \E newClientErr \in BOOLEAN, lookupErr \in BOOLEAN :
        LET r == PerformTokenAuth(tok, newClientErr, lookupErr)
        IN  /\ methods' = Append(methods, method)
            /\ tokenAuthArgs' = Append(tokenAuthArgs, tok)
            /\ clientBuilt' = r.built
            /\ storeCalls' = storeCalls \o r.calls
            /\ authOutcome' = IF r.err THEN "pending" ELSE "session"
            /\ sessionToken' = r.token
            /\ authPc' = IF r.err THEN "role" ELSE "done"

\* A token branch of authenticateToVault: call performTokenAuth with tok,
\* jww.FATAL.Fatalf on an error, return the client otherwise.
TokenBranch(method, tok) ==
    \E newClientErr \in BOOLEAN, lookupErr \in BOOLEAN :
        LET r == PerformTokenAuth(tok, newClientErr, lookupErr)
        IN  /\ methods' = Append(methods, method)
            /\ tokenAuthArgs' = Append(tokenAuthArgs, tok)
            /\ clientBuilt' = r.built
            /\ storeCalls' = storeCalls \o r.calls
            /\ authOutcome' = IF r.err THEN "fatal" ELSE "session"
            /\ sessionToken' = r.token
            /\ authPc' = "done"

-----------------------------------------------------------------------------
(* authenticateToVault *)

\* The lease branch handing over the command-line token instead.
LeaseAuthTokenFromArg == vaultTokenArg
\* The token handed to performTokenAuth in the lease branch.
LeaseAuthToken == leaseToken

\* The ConfigMap branch handing over the command-line variable instead.
ConfigMapAuthTokenFromArg == vaultTokenArg
\* The token handed to performTokenAuth in the ConfigMap branch.
ConfigMapAuthToken == configMaps[1]["token"]

\* The guard of the lease branch.
HasLeaseToken == leaseToken # ""

AuthWithLeaseToken ==
    /\ authPc = "lease"
    /\ HasLeaseToken
    /\ TokenBranch("lease", LeaseAuthToken)
    /\ UNCHANGED <<leaseToken, vaultTokenArg, envVaultToken, k8sAuthRole, cmLookup, configMaps>>

NoLeaseToken ==
    /\ authPc = "lease"
    /\ ~HasLeaseToken
    /\ authPc' = "arg"
    /\ UNCHANGED <<leaseToken, vaultTokenArg, envVaultToken, k8sAuthRole, methods,
                   tokenAuthArgs, clientBuilt, storeCalls, cmLookup, configMaps,
                   authOutcome, sessionToken>>

AuthWithCommandLineToken ==
    /\ authPc = "arg"
    /\ vaultTokenArg # ""
    /\ TokenBranch("arg", vaultTokenArg)
    /\ UNCHANGED <<leaseToken, vaultTokenArg, envVaultToken, k8sAuthRole, cmLookup, configMaps>>

NoCommandLineToken ==
    /\ authPc = "arg"
    /\ vaultTokenArg = ""
    /\ authPc' = "env"
    /\ UNCHANGED <<leaseToken, vaultTokenArg, envVaultToken, k8sAuthRole, methods,
                   tokenAuthArgs, clientBuilt, storeCalls, cmLookup, configMaps,
                   authOutcome, sessionToken>>

AuthWithEnvToken ==
    /\ authPc = "env"
    /\ envVaultToken # ""
    /\ TokenBranch("env", envVaultToken)
    /\ UNCHANGED <<leaseToken, vaultTokenArg, envVaultToken, k8sAuthRole, cmLookup, configMaps>>

NoEnvToken ==
    /\ authPc = "env"
    /\ envVaultToken = ""
    /\ authPc' = "configmap"
    /\ UNCHANGED <<leaseToken, vaultTokenArg, envVaultToken, k8sAuthRole, methods,
                   tokenAuthArgs, clientBuilt, storeCalls, cmLookup, configMaps,
                   authOutcome, sessionToken>>

\* rest.InClusterConfig, kubernetes.NewForConfig and ConfigMaps("default").List:
\* each may fail; a successful List returns any number of items.
LookupConfigMap ==
    /\ authPc = "configmap"
    /\ \E how \in {"notInCluster", "noClientset", "listErr", "listed"} :
         /\ cmLookup' = how
         /\ IF how = "listed"
            THEN configMaps' \in SeqsUpTo(ConfigMapData, MaxConfigMaps)
            ELSE configMaps' = <<>>
    /\ authPc' = "configmapItems"
    /\ UNCHANGED <<leaseToken, vaultTokenArg, envVaultToken, k8sAuthRole, methods,
                   tokenAuthArgs, clientBuilt, storeCalls, authOutcome, sessionToken>>

\* ConfigMapUsable taking the first item of any non-empty list.
ConfigMapUsableFirstItem ==
    /\ cmLookup = "listed"
    /\ Len(configMaps) >= 1
    /\ "token" \in DOMAIN configMaps[1]

\* len(configMaps.Items) == 1 and Data["token"] exists.
ConfigMapUsable ==
    /\ cmLookup = "listed"
    /\ Len(configMaps) = 1
    /\ "token" \in DOMAIN configMaps[1]

AuthWithConfigMapToken ==
    /\ authPc = "configmapItems"
    /\ ConfigMapUsable
    /\ TokenBranch("configmap", ConfigMapAuthToken)
    /\ UNCHANGED <<leaseToken, vaultTokenArg, envVaultToken, k8sAuthRole, cmLookup, configMaps>>

SkipConfigMap ==
    /\ authPc = "configmapItems"
    /\ ~ConfigMapUsable
    /\ authPc' = "role"
    /\ UNCHANGED <<leaseToken, vaultTokenArg, envVaultToken, k8sAuthRole, methods,
                   tokenAuthArgs, clientBuilt, storeCalls, cmLookup, configMaps,
                   authOutcome, sessionToken>>

\* The result of performKubernetesAuth given the step that goes wrong
\* ("none" when every step succeeds).
PerformKubernetesAuth(role, failure) ==
    CASE failure = "newClient" ->
           \* Fatalf evaluates client.Address() on the nil client
           [outcome |-> "panic", built |-> FALSE, calls |-> <<>>, token |-> ""]
      [] failure \in {"readFile", "setJSONBody"} ->
           [outcome |-> "error", built |-> TRUE, calls |-> <<>>, token |-> ""]
      [] failure = "rawRequest" ->
           [outcome |-> "error", built |-> TRUE, calls |-> <<Login(role, FALSE)>>,
            token |-> ""]
      [] failure = "decode" ->
           [outcome |-> "error", built |-> TRUE, calls |-> <<Login(role, TRUE)>>,
            token |-> ""]
      [] failure = "tokenID" ->
           [outcome |-> "fatal", built |-> TRUE, calls |-> <<Login(role, TRUE)>>,
            token |-> ""]
      [] OTHER ->
           [outcome |-> "session", built |-> TRUE, calls |-> <<Login(role, TRUE)>>,
            token |-> "s.login"]

KubernetesFailures ==
    {"none", "newClient", "readFile", "setJSONBody", "rawRequest", "decode", "tokenID"}

AuthWithKubernetesRole ==
    /\ authPc = "role"
    /\ k8sAuthRole # ""
    /\ \E failure \in KubernetesFailures :
         LET r == PerformKubernetesAuth(k8sAuthRole, failure)
         IN  /\ methods' = Append(methods, "kubernetes")
             /\ clientBuilt' = r.built
             /\ storeCalls' = storeCalls \o r.calls
             /\ authOutcome' = r.outcome
             /\ sessionToken' = r.token
    /\ authPc' = "done"
    /\ UNCHANGED <<leaseToken, vaultTokenArg, envVaultToken, k8sAuthRole, tokenAuthArgs,
                   cmLookup, configMaps>>

\* NoAuthMechanism without the Fatalf: the function returns nil, nil, nil.
NoAuthMechanismReturnsNil ==
    /\ authPc = "role"
    /\ k8sAuthRole = ""
    /\ authOutcome' = "session"
    /\ authPc' = "done"
    /\ UNCHANGED <<leaseToken, vaultTokenArg, envVaultToken, k8sAuthRole, methods,
                   tokenAuthArgs, clientBuilt, storeCalls, cmLookup, configMaps,
                   sessionToken>>

NoAuthMechanism ==
    /\ authPc = "role"
    /\ k8sAuthRole = ""
    /\ authOutcome' = "fatal"
    /\ authPc' = "done"
    /\ UNCHANGED <<leaseToken, vaultTokenArg, envVaultToken, k8sAuthRole, methods,
                   tokenAuthArgs, clientBuilt, storeCalls, cmLookup, configMaps,
                   sessionToken>>

-----------------------------------------------------------------------------
(* revokeSelf, called at shutdown with the client authenticateToVault gave *)

RevokeCall(tok, ok) == [op |-> "RevokeSelf", arg |-> tok, ok |-> ok]

RevokeIdle ==
    /\ revokePc = "idle"
    /\ revokeCalls = <<>>
    /\ revokeErrorLogged = FALSE

\* revokeSelf ending the process when RevokeSelf fails.
RevokeSelfFailureIsFatal ==
    /\ authOutcome = "session"
    /\ revokePc = "idle"
    /\ \E ok \in BOOLEAN :
         /\ revokeCalls' = Append(revokeCalls, RevokeCall(sessionToken, ok))
         /\ revokeErrorLogged' = ~ok
         /\ revokePc' = IF ok THEN "returned" ELSE "fatal"
    /\ UNCHANGED authVars

\* Lines 32-38: one RevokeSelf(client.Token()) call, its error logged.
RevokeSelf ==
    /\ authOutcome = "session"
    /\ revokePc = "idle"
    /\ \E ok \in BOOLEAN :
         /\ revokeCalls' = Append(revokeCalls, RevokeCall(sessionToken, ok))
         /\ revokeErrorLogged' = ~ok
    /\ revokePc' = "returned"
    /\ UNCHANGED authVars

-----------------------------------------------------------------------------
(* Paths.  A path string is a sequence of tokens, each the separator "/" or a *)
(* whole path element ("a", "..", ".").                                       *)

\* strings.HasPrefix(p, "/")
HasSlashPrefix(p) == Len(p) > 0 /\ p[1] = "/"

\* The elements of p between separators, empty elements dropped.
Elements(p) == SelectSeq(p, LAMBDA t : t # "/")

\* filepath.Clean's pass over the elements: "." is dropped, ".." removes the
\* element before it, is dropped at the root and is kept at the start of a
\* relative path.
RECURSIVE CleanElements(_, _, _)
CleanElements(elems, out, rooted) ==
    IF elems = <<>> THEN out
    ELSE LET e == Head(elems)
             rest == Tail(elems)
         IN  IF e = "." THEN CleanElements(rest, out, rooted)
             ELSE IF e = ".."
             THEN IF Len(out) > 0 /\ out[Len(out)] # ".."
                  THEN CleanElements(rest, SubSeq(out, 1, Len(out) - 1), rooted)
                  ELSE IF rooted THEN CleanElements(rest, out, rooted)
                  ELSE CleanElements(rest, Append(out, ".."), rooted)
             ELSE CleanElements(rest, Append(out, e), rooted)

\* The elements joined by separators.
RECURSIVE Slashed(_)
Slashed(elems) ==
    IF elems = <<>> THEN <<>>
    ELSE IF Len(elems) = 1 THEN elems
    ELSE <<Head(elems), "/">> \o Slashed(Tail(elems))

\* filepath.Clean
Clean(p) ==
    IF p = <<>> THEN <<".">>
    ELSE LET rooted == HasSlashPrefix(p)
             out == CleanElements(Elements(p), <<>>, rooted)
         IN  IF rooted THEN <<"/">> \o Slashed(out)
             ELSE IF out = <<>> THEN <<".">>
             ELSE Slashed(out)

\* filepath.Join(a, b): empty arguments are ignored, the rest is joined by a
\* separator and cleaned.
Join(a, b) ==
    IF a = <<>> /\ b = <<>> THEN <<>>
    ELSE IF a = <<>> THEN Clean(b)
    ELSE IF b = <<>> THEN Clean(a)
    ELSE Clean(a \o <<"/">> \o b)

\* EffectivePath joining every request path under the prefix, absolute or not.
EffectivePathAlwaysJoined(prefix, path) == Join(prefix, path)

\* The path readKVSecrets reads for a request path.
EffectivePath(prefix, path) ==
    IF ~HasSlashPrefix(path) THEN Join(prefix, path) ELSE path

\* The tokens path strings are made of, and the strings of at most n tokens:
\* two elements never stand side by side without a separator.
PathTokens == {"/", "a", "..", "."}
WellFormedPath(p) == \A i \in 1..(Len(p) - 1) : p[i] = "/" \/ p[i + 1] = "/"
PathsUpTo(n) == {p \in SeqsUpTo(PathTokens, n) : WellFormedPath(p)}

\* Lines 247-253 for one request path.
ResolvePath ==
    /\ resolvedPath = <<>>
    /\ kvStatus = "path"
    /\ resolvedPath' = <<EffectivePath(serviceSecretPrefix, requestPath)>>
    /\ UNCHANGED <<secrets, serviceSecretPrefix, kvIdx, kvStatus, vaultSecretsMapping,
                   kvLog, secretLeases, kvResult, requestPath>>

-----------------------------------------------------------------------------
(* readKVSecrets *)

Keys == {"k1", "k2"}
RequestPaths == { <<"a">>, <<"/", "b">>, <<"..", "/", "c">> }
Prefixes == { <<"/", "svc">> }

SecretRequests == [key : Keys, path : RequestPaths, isMissingOk : BOOLEAN]

\* What client.Logical().Read(path) gives back: an error, a nil response, or
\* a secret (identified here by the path it was read from).
ReadError == [kind |-> "error"]
NilResponse == [kind |-> "nil"]
SecretAt(path) == [kind |-> "secret", path |-> path]
ReadAnswers(path) == {ReadError, NilResponse, SecretAt(path)}

\* The variables of readKVSecrets before it is called.
KvIdle ==
    /\ secrets = <<>>
    /\ serviceSecretPrefix = <<>>
    /\ kvIdx = 0
    /\ kvStatus = "idle"
    /\ vaultSecretsMapping = <<>>
    /\ kvLog = <<>>
    /\ secretLeases = <<>>
    /\ kvResult = <<>>
    /\ requestPath = <<>>
    /\ resolvedPath = <<>>

\* m with key bound to value (vaultSecretsMapping[key] = *response).
MapPut(m, key, value) ==
    [k \in DOMAIN m \cup {key} |-> IF k = key THEN value ELSE m[k]]

EmptyMap == [k \in {} |-> NilResponse]

\* enrollSecretInLease(response): the lease registry takes the response.
EnrollSecretInLease(leases, response) == Append(leases, response)

\* The range loop has a request left.
KvAtRequest == kvStatus = "running" /\ kvIdx <= Len(secrets)

\* _, ok := vaultSecretsMapping[key]
IsDuplicateKey(key) == key \in DOMAIN vaultSecretsMapping

\* Lines 255-257: the key is already in the map, Fatalf.
DuplicateKeyFatal ==
    /\ KvAtRequest
    /\ IsDuplicateKey(secrets[kvIdx].key)
    /\ kvStatus' = "fatal"
    /\ UNCHANGED <<secrets, serviceSecretPrefix, kvIdx, vaultSecretsMapping, kvLog,
                   secretLeases, kvResult, requestPath, resolvedPath>>

\* The Read of the current request with the answer resp, entered in the log.
ReadLogged(resp) ==
    /\ KvAtRequest
    /\ ~IsDuplicateKey(secrets[kvIdx].key)
    /\ LET path == EffectivePath(serviceSecretPrefix, secrets[kvIdx].path)
       IN  /\ resp \in ReadAnswers(path)
           /\ kvLog' = Append(kvLog, [req |-> kvIdx, path |-> path, resp |-> resp])

\* ReadErrorFatal without the Fatalf: the error is logged and the loop goes on.
ReadErrorIgnored ==
    /\ ReadLogged(ReadError)
    /\ kvIdx' = kvIdx + 1
    /\ UNCHANGED <<secrets, serviceSecretPrefix, kvStatus, vaultSecretsMapping,
                   secretLeases, kvResult, requestPath, resolvedPath>>

\* Lines 262-264: Read returned an error, Fatalf.
ReadErrorFatal ==
    /\ ReadLogged(ReadError)
    /\ kvStatus' = "fatal"
    /\ UNCHANGED <<secrets, serviceSecretPrefix, kvIdx, vaultSecretsMapping,
                   secretLeases, kvResult, requestPath, resolvedPath>>

\* MissingIgnored for every request, whatever its isMissingOk.
MissingIgnoredAlways == TRUE

\* request.IsMissingOk of the current request.
MissingIgnored == secrets[kvIdx].isMissingOk

\* Lines 266-270: nil response and isMissingOk, the loop goes on.
ReadMissingOk ==
    /\ ReadLogged(NilResponse)
    /\ MissingIgnored
    /\ kvIdx' = kvIdx + 1
    /\ UNCHANGED <<secrets, serviceSecretPrefix, kvStatus, vaultSecretsMapping,
                   secretLeases, kvResult, requestPath, resolvedPath>>

\* Lines 271-273: nil response without isMissingOk, Fatalf.
ReadMissingFatal ==
    /\ ReadLogged(NilResponse)
    /\ ~MissingIgnored
    /\ kvStatus' = "fatal"
    /\ UNCHANGED <<secrets, serviceSecretPrefix, kvIdx, vaultSecretsMapping,
                   secretLeases, kvResult, requestPath, resolvedPath>>

\* ReadSecret putting the response in the map without enrolling its lease.
ReadSecretWithoutEnroll ==
    /\ KvAtRequest
    /\ LET resp == SecretAt(EffectivePath(serviceSecretPrefix, secrets[kvIdx].path))
       IN  /\ ReadLogged(resp)
           /\ vaultSecretsMapping' = MapPut(vaultSecretsMapping, secrets[kvIdx].key, resp)
    /\ kvIdx' = kvIdx + 1
    /\ UNCHANGED <<secrets, serviceSecretPrefix, kvStatus, kvResult, secretLeases,
                   requestPath, resolvedPath>>

\* Lines 274-277: a response, enrolled in the leases and put in the map.
ReadSecret ==
    /\ KvAtRequest
    /\ LET resp == SecretAt(EffectivePath(serviceSecretPrefix, secrets[kvIdx].path))
       IN  /\ ReadLogged(resp)
           /\ secretLeases' = EnrollSecretInLease(secretLeases, resp)
           /\ vaultSecretsMapping' = MapPut(vaultSecretsMapping, secrets[kvIdx].key, resp)
    /\ kvIdx' = kvIdx + 1
    /\ UNCHANGED <<secrets, serviceSecretPrefix, kvStatus, kvResult, requestPath, resolvedPath>>

\* Line 280: the loop is over, the map is returned.
ReturnMapping ==
    /\ kvStatus = "running"
    /\ kvIdx > Len(secrets)
    /\ kvStatus' = "returned"
    /\ kvResult' = <<vaultSecretsMapping>>
    /\ UNCHANGED <<secrets, serviceSecretPrefix, kvIdx, vaultSecretsMapping, kvLog,
                   secretLeases, requestPath, resolvedPath>>

-----------------------------------------------------------------------------
(* renewSelf: op run by backoff.Retry under an ExponentialBackOff with context *)

InitialIntervalMs == 500
MaxIntervalMs == 60000

\* An error text is a sequence of fragments; Vault's API errors carry the
\* status as a fragment "Code: nnn".
RenewErrorTexts ==
    { <<"URL: PUT /v1/auth/token/renew-self", "Code: 403", "permission denied">>,
      <<"URL: PUT /v1/auth/token/renew-self", "Code: 500", "internal error">>,
      <<"URL: PUT /v1/auth/token/renew-self", "Code: 400", "permission denied">>,
      <<"connection refused">> }

\* What a call of op or of renewSelf returns.
NoError == [kind |-> "nil"]
ApiError(text) == [kind |-> "api", text |-> text]
ErrPermissionDenied == [kind |-> "ErrPermissionDenied"]

\* How long one RenewSelf call may take, in milliseconds.
OpTimes == {0, 400}

\* checkPermissionDenied looking for the wrong status.
CheckPermissionDeniedWrongCode(text) == \E i \in 1..Len(text) : text[i] = "Code: 401"

\* strings.Contains(fmt.Sprintf("%s", err), "Code: 403")
CheckPermissionDenied(text) == \E i \in 1..Len(text) : text[i] = "Code: 403"

\* strategy.MaxElapsedTime = max
MaxElapsedTime == duration

\* ExponentialBackOff.NextBackOff gives Stop: the elapsed time is over a
\* non-zero MaxElapsedTime.
ElapsedTimeOver(t) == MaxElapsedTime # 0 /\ t > MaxElapsedTime

\* The delays NextBackOff may return for the interval cur: cur randomized by
\* the factor 0.5 (the two ends and the middle of the range).
RandomizedIntervals(cur) == {cur - (cur \div 2), cur, cur + (cur \div 2)}

\* incrementCurrentInterval: times 1.5, capped by MaxInterval.
IncrementedInterval(cur) ==
    IF cur >= (MaxIntervalMs * 2) \div 3 THEN MaxIntervalMs ELSE (cur * 3) \div 2

\* enrollAuthTokenInLease(secret): the lease registry takes the renewed secret.
EnrollAuthTokenInLease(lease, secret) == Append(lease, secret)

\* The variables of renewSelf before it is called.
RenewIdle ==
    /\ duration = 0
    /\ renewPc = "idle"
    /\ ctxDone = FALSE
    /\ cancelPoint = <<>>
    /\ now = 0
    /\ currentInterval = 0
    /\ nextWait = 0
    /\ attemptLog = <<>>
    /\ authTokenLease = <<>>
    /\ renewErr = NoError
    /\ stopReason = "none"

\* backoff.Retry is about to call op; opTime later RenewSelf has answered.
OpCalled(opTime) ==
    /\ renewPc = "attempt"
    /\ Len(attemptLog) < MaxAttempts
    /\ opTime \in OpTimes
    /\ now' = now + opTime

\* RenewSucceeds without line 53: the renewed secret is not enrolled.
RenewSucceedsWithoutEnroll ==
    /\ \E opTime \in OpTimes : OpCalled(opTime)
    /\ attemptLog' = Append(attemptLog, NoError)
    /\ renewPc' = "done"
    /\ renewErr' = NoError
    /\ stopReason' = "success"
    /\ UNCHANGED <<duration, ctxDone, cancelPoint, currentInterval, nextWait, authTokenLease>>

\* RenewSucceeds under a Retry that does not return on a nil error: the
\* secret is enrolled and the next delay is waited for.
RenewSucceedsAndRetries ==
    /\ \E opTime \in OpTimes : OpCalled(opTime)
    /\ attemptLog' = Append(attemptLog, NoError)
    /\ authTokenLease' = EnrollAuthTokenInLease(authTokenLease, [renewal |-> Len(attemptLog) + 1])
    /\ renewErr' = NoError
    /\ nextWait' \in RandomizedIntervals(currentInterval)
    /\ currentInterval' = IncrementedInterval(currentInterval)
    /\ renewPc' = "wait"
    /\ UNCHANGED <<duration, ctxDone, cancelPoint, stopReason>>

\* Lines 52-55 and Retry's return on a nil error.
RenewSucceeds ==
    /\ \E opTime \in OpTimes : OpCalled(opTime)
    /\ attemptLog' = Append(attemptLog, NoError)
    /\ authTokenLease' = EnrollAuthTokenInLease(authTokenLease, [renewal |-> Len(attemptLog) + 1])
    /\ renewPc' = "done"
    /\ renewErr' = NoError
    /\ stopReason' = "success"
    /\ UNCHANGED <<duration, ctxDone, cancelPoint, currentInterval, nextWait>>

\* Lines 44-48 and Retry's return on a *PermanentError.
RenewPermissionDenied ==
    /\ \E opTime \in OpTimes : OpCalled(opTime)
    /\ \E text \in RenewErrorTexts :
          /\ CheckPermissionDenied(text)
          /\ attemptLog' = Append(attemptLog, ApiError(text))
    /\ renewPc' = "done"
    /\ renewErr' = ErrPermissionDenied
    /\ stopReason' = "permanent"
    /\ UNCHANGED <<duration, ctxDone, cancelPoint, currentInterval, nextWait, authTokenLease>>

\* Line 49, and NextBackOff gives a delay: the timer is set.
RenewFailsAndWaits ==
    /\ \E opTime \in OpTimes : OpCalled(opTime)
    /\ \E text \in RenewErrorTexts :
          /\ ~CheckPermissionDenied(text)
          /\ attemptLog' = Append(attemptLog, ApiError(text))
          /\ renewErr' = ApiError(text)
    /\ ~ctxDone
    /\ ~ElapsedTimeOver(now')
    /\ nextWait' \in RandomizedIntervals(currentInterval)
    /\ currentInterval' = IncrementedInterval(currentInterval)
    /\ renewPc' = "wait"
    /\ UNCHANGED <<duration, ctxDone, cancelPoint, authTokenLease, stopReason>>

\* Line 49, and NextBackOff gives Stop: Retry returns the error of op.
RenewFailsAndStops ==
    /\ \E opTime \in OpTimes : OpCalled(opTime)
    /\ \E text \in RenewErrorTexts :
          /\ ~CheckPermissionDenied(text)
          /\ attemptLog' = Append(attemptLog, ApiError(text))
          /\ renewErr' = ApiError(text)
    /\ ctxDone \/ ElapsedTimeOver(now')
    /\ stopReason' = IF ctxDone THEN "cancelled" ELSE "timeout"
    /\ renewPc' = "done"
    /\ UNCHANGED <<duration, ctxDone, cancelPoint, currentInterval, nextWait, authTokenLease>>

\* The timer is what wakes the select of the wait: the next attempt.  A select
\* that ctx.Done() has already woken does not take the timer.
TimerFires ==
    /\ renewPc = "wait"
    /\ ~ctxDone
    /\ now' = now + nextWait
    /\ renewPc' = "attempt"
    /\ UNCHANGED <<duration, ctxDone, cancelPoint, currentInterval, nextWait, attemptLog,
                   authTokenLease, renewErr, stopReason>>

\* ctx.Done() wins the select of the wait: Retry returns the error of op.
WaitCancelled ==
    /\ renewPc = "wait"
    /\ ctxDone
    /\ renewPc' = "done"
    /\ stopReason' = "cancelled"
    /\ UNCHANGED <<duration, ctxDone, cancelPoint, now, currentInterval, nextWait, attemptLog,
                   authTokenLease, renewErr>>

\* The owner of ctx cancels it.
CancelContext ==
    /\ renewPc \in {"attempt", "wait"}
    /\ ~ctxDone
    /\ ctxDone' = TRUE
    /\ cancelPoint' = <<renewPc, Len(attemptLog)>>
    /\ UNCHANGED <<duration, renewPc, now, currentInterval, nextWait, attemptLog,
                   authTokenLease, renewErr, stopReason>>

-----------------------------------------------------------------------------
(* The lease registry.  The renewal task (enrollAuthTokenInLease, called by  *)
(* renewSelf) and the secret fetch (enrollSecretInLease, called by           *)
(* readKVSecrets) write it; the shutdown handler and the persistence         *)
(* collaborator read it.  Every access is made under the registry's guard.   *)

Writers == {"renewal", "fetch"}
Readers == {"shutdown", "persistence"}

\* The registry entry a writer updates.
CategoryOf(w) == IF w = "renewal" THEN "auth" ELSE "secret"
Categories == {CategoryOf(w) : w \in Writers}

EmptyRegistry == [c \in Categories |-> [lease |-> 0, expiry |-> 0]]

RegistryIdle ==
    /\ regLock = "free"
    /\ registry = EmptyRegistry
    /\ writerPc = [w \in Writers |-> "off"]
    /\ writerRound = [w \in Writers |-> 0]
    /\ readerPc = [r \in Readers |-> "off"]
    /\ readerSnap = [r \in Readers |-> EmptyRegistry]

\* Taking the guard without waiting for it to be free.
AcquireUnguarded(p) == regLock' = p

\* Taking the registry's guard: only when nobody holds it.
Acquire(p) == regLock = "free" /\ regLock' = p

Release(p) == regLock = p /\ regLock' = "free"

\* A writer has a credential or secret to enrol and takes the guard.
BeginEnroll(w) ==
    /\ writerPc[w] = "idle"
    /\ writerRound[w] < MaxUpdates
    /\ Acquire(w)
    /\ writerPc' = [writerPc EXCEPT ![w] = "locked"]
    /\ UNCHANGED <<registry, writerRound, readerPc, readerSnap>>

\* The entry's lease is replaced ...
EnrollWriteLease(w) ==
    /\ writerPc[w] = "locked"
    /\ registry' = [registry EXCEPT ![CategoryOf(w)].lease = writerRound[w] + 1]
    /\ writerPc' = [writerPc EXCEPT ![w] = "half"]
    /\ UNCHANGED <<regLock, writerRound, readerPc, readerSnap>>

\* ... and then its expiry.
EnrollWriteExpiry(w) ==
    /\ writerPc[w] = "half"
    /\ registry' = [registry EXCEPT ![CategoryOf(w)].expiry = writerRound[w] + 1]
    /\ writerPc' = [writerPc EXCEPT ![w] = "written"]
    /\ UNCHANGED <<regLock, writerRound, readerPc, readerSnap>>

EndEnroll(w) ==
    /\ writerPc[w] = "written"
    /\ Release(w)
    /\ writerPc' = [writerPc EXCEPT ![w] = "idle"]
    /\ writerRound' = [writerRound EXCEPT ![w] = @ + 1]
    /\ UNCHANGED <<registry, readerPc, readerSnap>>

\* A reader is about to flush the registry and takes the guard.
BeginFlush(r) ==
    /\ readerPc[r] = "idle"
    /\ Acquire(r)
    /\ readerPc' = [readerPc EXCEPT ![r] = "locked"]
    /\ UNCHANGED <<registry, writerPc, writerRound, readerSnap>>

FlushCopy(r) ==
    /\ readerPc[r] = "locked"
    /\ readerSnap' = [readerSnap EXCEPT ![r] = registry]
    /\ readerPc' = [readerPc EXCEPT ![r] = "copied"]
    /\ UNCHANGED <<regLock, registry, writerPc, writerRound>>

EndFlush(r) ==
    /\ readerPc[r] = "copied"
    /\ Release(r)
    /\ readerPc' = [readerPc EXCEPT ![r] = "idle"]
    /\ UNCHANGED <<registry, writerPc, writerRound, readerSnap>>

-----------------------------------------------------------------------------
(* Specifications *)

InitAuth ==
    /\ leaseToken \in TokenVals
    /\ vaultTokenArg \in TokenVals
    /\ envVaultToken \in TokenVals
    /\ k8sAuthRole \in RoleVals
    /\ authPc = "lease"
    /\ methods = <<>>
    /\ tokenAuthArgs = <<>>
    /\ clientBuilt = FALSE
    /\ storeCalls = <<>>
    /\ cmLookup = "none"
    /\ configMaps = <<>>
    /\ authOutcome = "pending"
    /\ sessionToken = ""
    /\ revokePc = "idle"
    /\ revokeCalls = <<>>
    /\ revokeErrorLogged = FALSE
    /\ KvIdle
    /\ RenewIdle
    /\ RegistryIdle

NextAuth ==
    \/ AuthWithLeaseToken /\ UNCHANGED <<kvVars, renewVars, revokeVars, registryVars>>
    \/ NoLeaseToken /\ UNCHANGED <<kvVars, renewVars, revokeVars, registryVars>>
    \/ AuthWithCommandLineToken /\ UNCHANGED <<kvVars, renewVars, revokeVars, registryVars>>
    \/ NoCommandLineToken /\ UNCHANGED <<kvVars, renewVars, revokeVars, registryVars>>
    \/ AuthWithEnvToken /\ UNCHANGED <<kvVars, renewVars, revokeVars, registryVars>>
    \/ NoEnvToken /\ UNCHANGED <<kvVars, renewVars, revokeVars, registryVars>>
    \/ LookupConfigMap /\ UNCHANGED <<kvVars, renewVars, revokeVars, registryVars>>
    \/ AuthWithConfigMapToken /\ UNCHANGED <<kvVars, renewVars, revokeVars, registryVars>>
    \/ SkipConfigMap /\ UNCHANGED <<kvVars, renewVars, revokeVars, registryVars>>
    \/ AuthWithKubernetesRole /\ UNCHANGED <<kvVars, renewVars, revokeVars, registryVars>>
    \/ NoAuthMechanism /\ UNCHANGED <<kvVars, renewVars, revokeVars, registryVars>>
    \/ RevokeSelf /\ UNCHANGED <<kvVars, renewVars, registryVars>>

SpecAuth == InitAuth /\ [][NextAuth]_vars

AuthIdle ==
    /\ leaseToken = ""
    /\ vaultTokenArg = ""
    /\ envVaultToken = ""
    /\ k8sAuthRole = ""
    /\ authPc = "idle"
    /\ methods = <<>>
    /\ tokenAuthArgs = <<>>
    /\ clientBuilt = FALSE
    /\ storeCalls = <<>>
    /\ cmLookup = "none"
    /\ configMaps = <<>>
    /\ authOutcome = "pending"
    /\ sessionToken = ""

InitKV ==
    /\ secrets \in SeqsUpTo(SecretRequests, MaxSecrets)
    /\ serviceSecretPrefix \in Prefixes
    /\ kvIdx = 1
    /\ kvStatus = "running"
    /\ vaultSecretsMapping = EmptyMap
    /\ kvLog = <<>>
    /\ secretLeases = <<>>
    /\ kvResult = <<>>
    /\ requestPath = <<>>
    /\ resolvedPath = <<>>
    /\ AuthIdle
    /\ RenewIdle
    /\ RevokeIdle
    /\ RegistryIdle

NextKV ==
    \/ DuplicateKeyFatal /\ UNCHANGED <<authVars, renewVars, revokeVars, registryVars>>
    \/ ReadErrorFatal /\ UNCHANGED <<authVars, renewVars, revokeVars, registryVars>>
    \/ ReadMissingOk /\ UNCHANGED <<authVars, renewVars, revokeVars, registryVars>>
    \/ ReadMissingFatal /\ UNCHANGED <<authVars, renewVars, revokeVars, registryVars>>
    \/ ReadSecret /\ UNCHANGED <<authVars, renewVars, revokeVars, registryVars>>
    \/ ReturnMapping /\ UNCHANGED <<authVars, renewVars, revokeVars, registryVars>>

SpecKV == InitKV /\ [][NextKV]_vars

InitPath ==
    /\ serviceSecretPrefix \in PathsUpTo(MaxPathTokens)
    /\ requestPath \in PathsUpTo(MaxPathTokens)
    /\ resolvedPath = <<>>
    /\ secrets = <<>>
    /\ kvIdx = 0
    /\ kvStatus = "path"
    /\ vaultSecretsMapping = <<>>
    /\ kvLog = <<>>
    /\ secretLeases = <<>>
    /\ kvResult = <<>>
    /\ AuthIdle
    /\ RenewIdle
    /\ RevokeIdle
    /\ RegistryIdle

NextPath == ResolvePath /\ UNCHANGED <<authVars, renewVars, revokeVars, registryVars>>

SpecPath == InitPath /\ [][NextPath]_vars

InitRegistry ==
    /\ regLock = "free"
    /\ registry = EmptyRegistry
    /\ writerPc = [w \in Writers |-> "idle"]
    /\ writerRound = [w \in Writers |-> 0]
    /\ readerPc = [r \in Readers |-> "idle"]
    /\ readerSnap = [r \in Readers |-> EmptyRegistry]
    /\ AuthIdle
    /\ KvIdle
    /\ RenewIdle
    /\ RevokeIdle

NextRegistry ==
    \/ (\E w \in Writers : BeginEnroll(w)) /\ UNCHANGED <<authVars, kvVars, renewVars, revokeVars>>
    \/ (\E w \in Writers : EnrollWriteLease(w)) /\ UNCHANGED <<authVars, kvVars, renewVars, revokeVars>>
    \/ (\E w \in Writers : EnrollWriteExpiry(w)) /\ UNCHANGED <<authVars, kvVars, renewVars, revokeVars>>
    \/ (\E w \in Writers : EndEnroll(w)) /\ UNCHANGED <<authVars, kvVars, renewVars, revokeVars>>
    \/ (\E r \in Readers : BeginFlush(r)) /\ UNCHANGED <<authVars, kvVars, renewVars, revokeVars>>
    \/ (\E r \in Readers : FlushCopy(r)) /\ UNCHANGED <<authVars, kvVars, renewVars, revokeVars>>
    \/ (\E r \in Readers : EndFlush(r)) /\ UNCHANGED <<authVars, kvVars, renewVars, revokeVars>>

SpecRegistry == InitRegistry /\ [][NextRegistry]_vars

InitRenew ==
    /\ duration \in {sec * 1000 : sec \in 0..MaxDurationSec}
    /\ renewPc = "attempt"
    /\ ctxDone = FALSE
    /\ cancelPoint = <<>>
    /\ now = 0
    /\ currentInterval = InitialIntervalMs
    /\ nextWait = 0
    /\ attemptLog = <<>>
    /\ authTokenLease = <<>>
    /\ renewErr = NoError
    /\ stopReason = "none"
    /\ AuthIdle
    /\ KvIdle
    /\ RevokeIdle
    /\ RegistryIdle

NextRenew ==
    \/ RenewSucceeds /\ UNCHANGED <<authVars, kvVars, revokeVars, registryVars>>
    \/ RenewPermissionDenied /\ UNCHANGED <<authVars, kvVars, revokeVars, registryVars>>
    \/ RenewFailsAndWaits /\ UNCHANGED <<authVars, kvVars, revokeVars, registryVars>>
    \/ RenewFailsAndStops /\ UNCHANGED <<authVars, kvVars, revokeVars, registryVars>>
    \/ TimerFires /\ UNCHANGED <<authVars, kvVars, revokeVars, registryVars>>
    \/ WaitCancelled /\ UNCHANGED <<authVars, kvVars, revokeVars, registryVars>>
    \/ CancelContext /\ UNCHANGED <<authVars, kvVars, revokeVars, registryVars>>

SpecRenew == InitRenew /\ [][NextRenew]_vars

-----------------------------------------------------------------------------
(* Properties of authenticateToVault *)

\* Every request sent to Vault is a self-lookup of tok, and the one self-lookup
\* of the method is sent exactly when its Vault client could be built.
OnlyLookupsOf(tok) ==
    /\ \A i \in 1..Len(storeCalls) : storeCalls[i].op = "LookupSelf" /\ storeCalls[i].arg = tok
    /\ Len(storeCalls) = (IF clientBuilt THEN 1 ELSE 0)

\* C1: with a non-empty auth token in the lease registry, authenticateToVault
\* runs the lease branch and nothing else: the one performTokenAuth call gets
\* exactly the lease token, the self-lookup it sends (sent as soon as the Vault
\* client is built) carries that token, and neither the command-line token, the
\* environment token, the ConfigMap lookup nor the Kubernetes login is used,
\* whatever the other inputs are.
C1_LeaseTokenUsedAlone ==
    leaseToken # "" =>
        \/ /\ authPc = "lease"
           /\ methods = <<>>
           /\ storeCalls = <<>>
        \/ /\ authPc = "done"
           /\ methods = <<"lease">>
           /\ tokenAuthArgs = <<leaseToken>>
           /\ OnlyLookupsOf(leaseToken)
           /\ cmLookup = "none"
           /\ authOutcome = "session" => sessionToken = leaseToken

C1_Witness ==
    /\ authPc = "done"
    /\ leaseToken = "s.tok1"
    /\ vaultTokenArg = "s.tok2"
    /\ envVaultToken = "s.tok2"
    /\ k8sAuthRole # ""
    /\ storeCalls = <<LookupSelf("s.tok1", TRUE)>>
    /\ authOutcome = "session"

\* A method that was invoked and did not produce a session.
MethodFailed == methods # <<>> /\ authOutcome # "session"

\* C2: a method that is entered is the only one ever entered, and when its
\* call to Vault fails (or the method fails in any other way) the resolution
\* is over and has failed: no later method runs, no further request is sent and
\* no session is returned.
C2_ConfiguredMethodFailureIsFinal ==
    /\ Len(methods) <= 1
    /\ Len(storeCalls) <= 1
    /\ methods # <<>> => authPc = "done"
    /\ \A i \in 1..Len(storeCalls) :
          ~storeCalls[i].ok => /\ authPc = "done"
                               /\ authOutcome \in {"fatal", "error"}
                               /\ sessionToken = ""
    /\ MethodFailed => authOutcome \in {"fatal", "error", "panic"}

C2_Witness ==
    /\ authPc = "done"
    /\ methods = <<"env">>
    /\ k8sAuthRole # ""
    /\ storeCalls = <<LookupSelf(envVaultToken, FALSE)>>
    /\ authOutcome = "fatal"

\* The ConfigMap lookup returned exactly one item and it has a token field.
OneRecordWithToken ==
    /\ cmLookup = "listed"
    /\ Len(configMaps) = 1
    /\ "token" \in DOMAIN configMaps[1]

\* C3: with no lease, command-line or environment token and a ConfigMap lookup
\* that returns exactly one item with a token field, the resolver calls
\* performTokenAuth with that item's token (its self-lookup carries that
\* token) and never reaches the Kubernetes login, with or without a role.
C3_SingleConfigMapTokenUsed ==
    (leaseToken = "" /\ vaultTokenArg = "" /\ envVaultToken = "" /\ OneRecordWithToken) =>
        \/ /\ authPc = "configmapItems"
           /\ methods = <<>>
           /\ storeCalls = <<>>
        \/ /\ authPc = "done"
           /\ methods = <<"configmap">>
           /\ tokenAuthArgs = <<configMaps[1]["token"]>>
           /\ OnlyLookupsOf(configMaps[1]["token"])
           /\ authOutcome = "session" => sessionToken = configMaps[1]["token"]

C3_Witness ==
    /\ authPc = "done"
    /\ leaseToken = "" /\ vaultTokenArg = "" /\ envVaultToken = ""
    /\ k8sAuthRole # ""
    /\ OneRecordWithToken
    /\ storeCalls = <<LookupSelf("s.tok2", TRUE)>>
    /\ authOutcome = "session"

\* The ConfigMap step was run and gave no usable record.
FallbackUnusable ==
    \/ cmLookup \in {"notInCluster", "noClientset", "listErr"}
    \/ /\ cmLookup = "listed"
       /\ \/ Len(configMaps) # 1
          \/ "token" \notin DOMAIN configMaps[1]

\* C4: when the ConfigMap step ends without a usable record (not in a cluster,
\* no clientset, list error, zero or several items, or no token field) the
\* step itself neither fails the resolution nor sends anything to Vault: the
\* resolver goes on to the role check, and with a role configured the Kubernetes
\* login is the one method run and its result is the result of the resolution.
C4_UnusableFallbackIsSkipped ==
    FallbackUnusable =>
        /\ authPc \in {"configmapItems", "role", "done"}
        /\ tokenAuthArgs = <<>>
        /\ authPc \in {"configmapItems", "role"} =>
              /\ authOutcome = "pending"
              /\ methods = <<>>
              /\ storeCalls = <<>>
        /\ (authPc = "done" /\ k8sAuthRole = "") =>
              /\ methods = <<>>
              /\ storeCalls = <<>>
              /\ authOutcome = "fatal"
        /\ (authPc = "done" /\ k8sAuthRole # "") =>
              /\ methods = <<"kubernetes">>
              /\ \E failure \in KubernetesFailures :
                    LET r == PerformKubernetesAuth(k8sAuthRole, failure)
                    IN  /\ authOutcome = r.outcome
                        /\ storeCalls = r.calls
                        /\ sessionToken = r.token

C4_Witness ==
    /\ authPc = "done"
    /\ cmLookup = "listed"
    /\ Len(configMaps) = 2
    /\ "token" \in DOMAIN configMaps[1]
    /\ methods = <<"kubernetes">>
    /\ authOutcome = "session"

\* C5: with no lease, command-line or environment token, no usable ConfigMap
\* record and no role, authenticateToVault ends in Fatalf, has sent nothing to
\* Vault and returns no session.
C5_NoMechanismIsFatal ==
    (leaseToken = "" /\ vaultTokenArg = "" /\ envVaultToken = "" /\ k8sAuthRole = ""
        /\ FallbackUnusable) =>
        /\ storeCalls = <<>>
        /\ methods = <<>>
        /\ authOutcome \in {"pending", "fatal"}
        /\ authPc = "done" => authOutcome = "fatal"

C5_Witness ==
    /\ authPc = "done"
    /\ leaseToken = "" /\ vaultTokenArg = "" /\ envVaultToken = "" /\ k8sAuthRole = ""
    /\ cmLookup = "notInCluster"
    /\ authOutcome = "fatal"

\* C17: a run of authenticateToVault sends Vault at most one request (one
\* self-lookup or one login), on the failing paths too and only in the method
\* that ends the run, and it returns a session only if that request succeeded.
C17_AtMostOneStoreCall ==
    /\ Len(storeCalls) <= 1
    /\ storeCalls # <<>> => authPc = "done" /\ Len(methods) = 1
    /\ authOutcome = "session" => (Len(storeCalls) = 1 /\ storeCalls[1].ok)

C17_Witness ==
    /\ authOutcome = "session"
    /\ methods = <<"kubernetes">>
    /\ storeCalls = <<Login(k8sAuthRole, TRUE)>>
    /\ cmLookup # "none"

\* C15: revokeSelf sends exactly one RevokeSelf request, for the session's
\* token, and returns whether or not the request failed; a failure is logged
\* and nothing else; the step changes neither the auth token lease nor the
\* session's token, and the session stays as authenticateToVault left it.
C15_RevokeIsBestEffort ==
    /\ [](/\ revokePc \in {"idle", "returned"}
          /\ revokePc = "idle" => revokeCalls = <<>>
          /\ revokePc = "returned" =>
                /\ Len(revokeCalls) = 1
                /\ revokeCalls[1].arg = sessionToken
                /\ revokeErrorLogged = ~revokeCalls[1].ok
                /\ authOutcome = "session")
    /\ [][revokeCalls' # revokeCalls =>
            UNCHANGED <<leaseToken, sessionToken, authOutcome, storeCalls>>]_vars

C15_Witness ==
    /\ revokePc = "returned"
    /\ revokeCalls = <<RevokeCall(sessionToken, FALSE)>>
    /\ revokeErrorLogged
    /\ sessionToken # ""

-----------------------------------------------------------------------------
(* Properties of readKVSecrets *)

\* The request of a log entry.
RequestOf(e) == secrets[e.req]

\* Some Read was issued for request i.
WasRead(i) == \E n \in 1..Len(kvLog) : kvLog[n].req = i

\* C6: for every request list in which two entries share a key, readKVSecrets
\* ends in Fatalf and no Read is ever issued for either of the two entries,
\* wherever they stand and whatever the first entry's path yields.
C6_DuplicateKeyFailsBeforeAnyRead ==
    \A i, j \in 1..Len(secrets) :
        (i < j /\ secrets[i].key = secrets[j].key) =>
            /\ ~WasRead(i)
            /\ ~WasRead(j)
            /\ kvStatus # "returned"

\* C7: a request with isMissingOk whose Read gave a nil response leaves its key
\* out of the result mapping and enrols no lease, and the loop goes on: the
\* failure of the batch, if any, lies with a later request, and a batch that
\* returns has processed every request.
C7_MissingOkKeyOmitted ==
    \A n \in 1..Len(kvLog) :
        (kvLog[n].resp = NilResponse /\ RequestOf(kvLog[n]).isMissingOk) =>
            /\ RequestOf(kvLog[n]).key \notin DOMAIN vaultSecretsMapping
            /\ kvStatus = "returned" => RequestOf(kvLog[n]).key \notin DOMAIN kvResult[1]
            /\ Len(secretLeases) = Cardinality({m \in 1..Len(kvLog) : kvLog[m].resp.kind = "secret"})
            /\ kvIdx > kvLog[n].req
            /\ kvStatus = "returned" => \A i \in 1..Len(secrets) : WasRead(i)

\* C8: a request without isMissingOk whose Read gave a nil response ends the
\* batch in Fatalf at that request, and the caller gets no mapping, the
\* secrets fetched before it included.
C8_MissingWithoutOkIsFatal ==
    \A n \in 1..Len(kvLog) :
        (kvLog[n].resp = NilResponse /\ ~RequestOf(kvLog[n]).isMissingOk) =>
            /\ kvStatus = "fatal"
            /\ kvResult = <<>>
            /\ n = Len(kvLog)
            /\ kvIdx = kvLog[n].req

C8_Witness ==
    /\ kvStatus = "fatal"
    /\ Len(kvLog) = 3
    /\ kvLog[1].resp.kind = "secret"
    /\ kvLog[3].resp = NilResponse
    /\ ~secrets[3].isMissingOk
    /\ DOMAIN vaultSecretsMapping # {}
    /\ kvResult = <<>>

\* The Read of a log entry made its request fail.
FailedRead(e) ==
    \/ e.resp = ReadError
    \/ e.resp = NilResponse /\ ~RequestOf(e).isMissingOk

\* C9: the Reads are issued in configuration order, one per request at most
\* and each on the request's effective path; a request that fails (Read error,
\* nil response without isMissingOk, duplicate key) is the last one looked at:
\* no Read follows it and nothing is returned.
C9_SequentialAndAbortsOnFailure ==
    /\ \A n \in 1..Len(kvLog) :
          /\ kvLog[n].req = n
          /\ kvLog[n].path = EffectivePath(serviceSecretPrefix, secrets[n].path)
          /\ FailedRead(kvLog[n]) =>
                /\ n = Len(kvLog)
                /\ kvIdx = n
                /\ kvStatus = "fatal"
    /\ kvStatus = "running" => Len(kvLog) = kvIdx - 1
    /\ kvStatus = "fatal" =>
          /\ kvResult = <<>>
          /\ kvIdx <= Len(secrets)
          /\ \/ Len(kvLog) = kvIdx /\ FailedRead(kvLog[kvIdx])
             \/ Len(kvLog) = kvIdx - 1 /\ secrets[kvIdx].key \in DOMAIN vaultSecretsMapping

C9_Witness ==
    /\ kvStatus = "fatal"
    /\ Len(secrets) = 3
    /\ Len(kvLog) = 2
    /\ kvLog[1].resp.kind = "secret"
    /\ kvLog[2].resp = ReadError

-----------------------------------------------------------------------------
(* Properties of renewSelf *)

\* The error of an attempt carries the 403 signal.
Carries403(e) == e.kind = "api" /\ \E i \in 1..Len(e.text) : e.text[i] = "Code: 403"

\* C10: an attempt whose error carries "Code: 403" is the last attempt of the
\* call: the retry loop has stopped right after it, whatever is left of the
\* time budget, renewSelf returns ErrPermissionDenied, and the error returned
\* when the budget runs out is never that error nor one carrying the signal.
C10_PermissionDeniedStopsRetry ==
    /\ \A n \in 1..Len(attemptLog) :
          Carries403(attemptLog[n]) =>
              /\ n = Len(attemptLog)
              /\ renewPc = "done"
              /\ stopReason = "permanent"
              /\ renewErr = ErrPermissionDenied
    /\ stopReason = "timeout" =>
          /\ renewErr # ErrPermissionDenied
          /\ renewErr.kind = "api"
          /\ ~Carries403(renewErr)

C10_Witness ==
    /\ renewPc = "done"
    /\ Len(attemptLog) = 2
    /\ Carries403(attemptLog[2])
    /\ duration > 0
    /\ now < duration
    /\ ~ctxDone
    /\ renewErr = ErrPermissionDenied

\* Every attempt made so far returned an error without the 403 signal.
AllTransient ==
    \A n \in 1..Len(attemptLog) : attemptLog[n].kind = "api" /\ ~Carries403(attemptLog[n])

\* C11: in a run whose attempts all return transient errors, whatever the
\* configured duration, no new wait is begun once the elapsed time is over the
\* duration: the loop has ended by then, and it has ended with an error.
C11_TransientRetryEndsAtMaxElapsed ==
    AllTransient =>
        /\ renewPc = "wait" => now <= duration
        /\ (renewPc = "done" /\ stopReason = "timeout") => renewErr # NoError

\* C12: when ctx is cancelled during a wait between attempts, no attempt is
\* made after the cancellation and what renewSelf returns is a cancellation
\* error, not the kind of error it returns on a timeout.
C12_CancelledWaitSurfacesCancellation ==
    (cancelPoint # <<>> /\ cancelPoint[1] = "wait") =>
        /\ Len(attemptLog) = cancelPoint[2]
        /\ renewPc \in {"wait", "done"}
        /\ renewPc = "done" =>
              /\ stopReason = "cancelled"
              /\ renewErr.kind = "cancelled"

\* The attempts that returned no error.
SuccessfulAttempts == {n \in 1..Len(attemptLog) : attemptLog[n].kind = "nil"}

\* C13: enrollAuthTokenInLease has been called once for every attempt that
\* returned no error, with the secret of that attempt, and not at all for the
\* attempts that returned an error, transient or 403.
C13_LeaseUpdatedOnSuccessOnly ==
    /\ Len(authTokenLease) = Cardinality(SuccessfulAttempts)
    /\ \A k \in 1..Len(authTokenLease) : authTokenLease[k].renewal \in SuccessfulAttempts

C13_Witness ==
    /\ renewPc = "done"
    /\ Len(attemptLog) = 3
    /\ attemptLog[1].kind = "api"
    /\ attemptLog[3].kind = "nil"
    /\ Len(authTokenLease) = 1

\* C19: a successful attempt is the last attempt of the call, the call has
\* then enrolled exactly one secret, and a finished call returns nil exactly
\* when its last attempt returned no error.
C19_StopsAtFirstSuccess ==
    /\ \A n \in SuccessfulAttempts :
          /\ n = Len(attemptLog)
          /\ renewPc = "done"
          /\ Len(authTokenLease) = 1
    /\ renewPc = "done" =>
          /\ attemptLog # <<>>
          /\ (renewErr = NoError) <=> (Len(attemptLog) \in SuccessfulAttempts)

C19_Witness ==
    /\ renewPc = "done"
    /\ stopReason = "success"
    /\ Len(attemptLog) = 2
    /\ attemptLog[1].kind = "api"
    /\ renewErr = NoError
    /\ duration > 0
    /\ now < duration

\* The reads that gave a response, in the order they were made.
AnsweredReads == SelectSeq(kvLog, LAMBDA e : e.resp.kind = "secret")

\* C18: after every request of readKVSecrets the result mapping and the secret
\* leases agree: the keys of the mapping are the keys of the requests whose
\* Read gave a response, each bound to that response; the enrolled leases are
\* those responses, once each and in order; a nil response or a failed Read
\* enrols nothing.
C18_MappingAndLeasesAgree ==
    /\ DOMAIN vaultSecretsMapping
          = {RequestOf(AnsweredReads[n]).key : n \in 1..Len(AnsweredReads)}
    /\ \A n \in 1..Len(AnsweredReads) :
          vaultSecretsMapping[RequestOf(AnsweredReads[n]).key] = AnsweredReads[n].resp
    /\ secretLeases = [n \in 1..Len(AnsweredReads) |-> AnsweredReads[n].resp]
    /\ Cardinality(DOMAIN vaultSecretsMapping) = Len(secretLeases)

C18_Witness ==
    /\ Len(kvLog) = 2
    /\ kvLog[1].resp = NilResponse
    /\ kvLog[2].resp.kind = "secret"
    /\ secrets[1].key # secrets[2].key
    /\ DOMAIN vaultSecretsMapping = {secrets[2].key}
    /\ Len(secretLeases) = 1
    /\ kvStatus = "returned"

-----------------------------------------------------------------------------
(* Properties of the path computation *)

\* The elements of the cleaned prefix.
PrefixElements ==
    CleanElements(Elements(serviceSecretPrefix), <<>>, HasSlashPrefix(serviceSecretPrefix))

\* p names the prefix or a location below it.
UnderPrefix(p) ==
    /\ HasSlashPrefix(p) = HasSlashPrefix(serviceSecretPrefix)
    /\ LET base == PrefixElements
           elems == SelectSeq(Elements(p), LAMBDA e : e # ".")
       IN  /\ Len(base) <= Len(elems)
           /\ SubSeq(elems, 1, Len(base)) = base

HasDotDot(p) == \E i \in 1..Len(p) : p[i] = ".."

\* C16 as claimed: a request path with a leading separator is read unchanged,
\* and every other request path is read at a location under the prefix.
C16_RelativePathAlwaysUnderPrefix ==
    resolvedPath # <<>> =>
        /\ HasSlashPrefix(requestPath) => resolvedPath[1] = requestPath
        /\ ~HasSlashPrefix(requestPath) => UnderPrefix(resolvedPath[1])

\* C16 as amended: a request path with a leading separator is read unchanged;
\* every other request path is read at the cleaned join of prefix and path,
\* which for a path without ".." elements is the prefix's elements followed by
\* the path's elements ("." dropped): a location under the prefix.
C16_RelativePathWithoutDotDotUnderPrefix ==
    resolvedPath # <<>> =>
        /\ HasSlashPrefix(requestPath) => resolvedPath[1] = requestPath
        /\ (~HasSlashPrefix(requestPath) /\ ~HasDotDot(requestPath)) =>
              /\ UnderPrefix(resolvedPath[1])
              /\ SelectSeq(Elements(resolvedPath[1]), LAMBDA e : e # ".")
                    = PrefixElements \o SelectSeq(Elements(requestPath), LAMBDA e : e # ".")

C16_Witness ==
    /\ resolvedPath = << <<"/", "a", "/", "a">> >>
    /\ serviceSecretPrefix = <<"/", "a", "/">>
    /\ requestPath = <<".", "/", "a">>

-----------------------------------------------------------------------------
(* Properties of the lease registry *)

MidUpdate(w) == writerPc[w] \in {"locked", "half", "written"}
Reading(r) == readerPc[r] \in {"locked", "copied"}

\* Both fields of every entry come from the same update.
Whole(reg) == \A c \in Categories : reg[c].lease = reg[c].expiry

====
